---------------------------- MODULE Spec2Model ----------------------------
(***************************************************************************)
(* recipe-card: extraction of recipes from docx containers (package doc,   *)
(* package recipe) and the synchronisation of the bleve search index with  *)
(* the corpus through the item.idx fingerprint cache (NewHandler).         *)
(*                                                                         *)
(* Strings are sequences of byte values (ASCII codes), so that ToLower,    *)
(* Contains, Replace, TrimSpace, HasSuffix and the item.idx file format    *)
(* are computed byte by byte as the Go code computes them.                 *)
(***************************************************************************)
EXTENDS Integers, Sequences, FiniteSets, TLC

(***************************************************************************)
(* Bounds of the model.                                                    *)
(***************************************************************************)
\* longest XML token stream handed to Docx.Text in SpecParse
MaxTokens == 5

\* most files and directories filepath.Walk visits in SpecLoad
MaxWalk == 3

\* most recipes RecipesFromPath returns to NewHandler in Spec and SpecReject
MaxRecipes == 2

\* most lines of categorized content of a recipe in SpecEdit
MaxLines == 2

\* most character data tokens after <body> in SpecLines
MaxText == 6

(***************************************************************************)
(* package strings, on byte sequences                                      *)
(***************************************************************************)
\* ':' , the old string of strings.Replace at recipe.go:125
Colon == 58

\* '\n', the record separator of item.idx
Newline == 10

\* unicode.IsSpace on the bytes the model uses
IsSpace(c) == c \in {9, 10, 11, 12, 13, 32}

ToLowerByte(c) == IF c >= 65 /\ c <= 90 THEN c + 32 ELSE c

\* strings.ToLower
ToLower(s) == [k \in 1..Len(s) |-> ToLowerByte(s[k])]

\* strings.Contains
Contains(s, substr) ==
    \E k \in 0..(Len(s) - Len(substr)) : SubSeq(s, k + 1, k + Len(substr)) = substr

\* strings.HasSuffix
HasSuffix(s, suffix) ==
    /\ Len(s) >= Len(suffix)
    /\ SubSeq(s, Len(s) - Len(suffix) + 1, Len(s)) = suffix

\* strings.Replace(s, old, new, -1) for a one-byte old: every occurrence
RECURSIVE Replace(_, _, _)
Replace(s, old, new) ==
    IF s = <<>> THEN <<>>
    ELSE (IF Head(s) = old THEN new ELSE <<Head(s)>>) \o Replace(Tail(s), old, new)

RECURSIVE TrimLeft(_)
TrimLeft(s) ==
    IF s # <<>> /\ IsSpace(Head(s)) THEN TrimLeft(Tail(s)) ELSE s

RECURSIVE TrimRight(_)
TrimRight(s) ==
    IF s # <<>> /\ IsSpace(s[Len(s)]) THEN TrimRight(SubSeq(s, 1, Len(s) - 1)) ELSE s

\* strings.TrimSpace
TrimSpace(s) == TrimRight(TrimLeft(s))

\* all sequences over S of length at most n
SeqsUpTo(S, n) == UNION {[1..k -> S] : k \in 0..n}

(***************************************************************************)
(* package recipe: the categories                                          *)
(***************************************************************************)
Serves == <<115, 101, 114, 118, 101, 115>>                    \* "serves"
OvenTemperature ==
    <<111, 118, 101, 110, 32, 116, 101, 109, 112, 101, 114, 97, 116, 117, 114, 101>>
                                                              \* "oven temperature"
Ingredients == <<105, 110, 103, 114, 101, 100, 105, 101, 110, 116, 115>>
                                                              \* "ingredients"
Preparation == <<112, 114, 101, 112, 97, 114, 97, 116, 105, 111, 110>>
                                                              \* "preparation"
Tips == <<116, 105, 112, 115>>                                \* "tips"

ValidCategoriesOrder == <<Serves, OvenTemperature, Ingredients, Preparation, Tips>>

validCategories == {OvenTemperature, Serves, Ingredients, Preparation, Tips}

\* "recipe", the substring that announces the title line
RecipeWord == <<114, 101, 99, 105, 112, 101>>

\* a Go map[string][]string: a function whose domain is the set of keys present
EmptyMap == [k \in {} |-> <<>>]

MapGet(m, k) == IF k \in DOMAIN m THEN m[k] ELSE <<>>

MapPut(m, k, v) == [x \in (DOMAIN m) \cup {k} |-> IF x = k THEN v ELSE m[x]]

MapDelete(m, k) == [x \in (DOMAIN m) \ {k} |-> m[x]]

(***************************************************************************)
(* package doc: Docx.Text                                                  *)
(*                                                                         *)
(* The token stream of xml.Decoder is the input: a token is a record       *)
(* [kind, text] with kind "StartElement" (text = Name.Local), "CharData"   *)
(* (text = the bytes) or "EndElement".  bad says that the decoder ends     *)
(* the stream with an error other than io.EOF.                             *)
(***************************************************************************)
BodyName == <<98, 111, 100, 121>>                             \* "body"

\* one iteration of the token loop: st = [lines, outputCharData]
TextToken(st, t) ==
    IF t.kind = "StartElement"
    THEN IF ~st.outputCharData /\ ToLower(t.text) = BodyName
         THEN [st EXCEPT !.outputCharData = TRUE]
         ELSE st
    ELSE IF t.kind = "CharData"
    THEN IF st.outputCharData /\ TrimSpace(t.text) # <<>>
         THEN [st EXCEPT !.lines = Append(st.lines, TrimSpace(t.text))]
         ELSE st
    ELSE st

RECURSIVE TextLoop(_, _)
TextLoop(st, toks) ==
    IF toks = <<>> THEN st ELSE TextLoop(TextToken(st, Head(toks)), Tail(toks))

\* Docx.Text: the lines collected, and whether err is non-nil on return
Text(toks, bad) ==
    [lines |-> TextLoop([lines |-> <<>>, outputCharData |-> FALSE], toks).lines,
     err   |-> bad]

(***************************************************************************)
(* package recipe: the line loop of Recipe.ParseFiles                      *)
(***************************************************************************)
\* the locals and fields of the loop before its first iteration
ParseStart ==
    [Title |-> <<>>, Info |-> EmptyMap, titleIsNext |-> FALSE, currentGroup |-> <<>>]

\* mutant: only a trailing colon is stripped
LowerLine_TrailingColon(line) ==
    ToLower(IF line # <<>> /\ line[Len(line)] = Colon
            THEN SubSeq(line, 1, Len(line) - 1) ELSE line)

\* the line as it is looked up in validCategories
LowerLine(line) == ToLower(Replace(line, Colon, <<>>))

\* mutant: the test for "recipe" without lowercasing the line
AnnouncesTitle_CaseSensitive(line) == Contains(line, RecipeWord)

\* the test that marks the next line as the title
AnnouncesTitle(line) == Contains(ToLower(line), RecipeWord)

\* mutant: the line is stored as it was looked up (lowercased, without colons)
AppendLine_Lowered(info, group, line) ==
    MapPut(info, group, Append(MapGet(info, group), LowerLine(line)))

\* "r.Info[currentGroup] = append(r.Info[currentGroup], line)"
AppendLine(info, group, line) ==
    MapPut(info, group, Append(MapGet(info, group), line))

\* one iteration of "for _, line := range lines"
ParseLine(st, line) ==
    IF st.Title = <<>>
    THEN IF st.titleIsNext
         THEN [st EXCEPT !.Title = line]
         ELSE IF AnnouncesTitle(line)
              THEN [st EXCEPT !.titleIsNext = TRUE]
              ELSE st
    ELSE IF LowerLine(line) \in validCategories
         THEN [st EXCEPT !.currentGroup = LowerLine(line)]
         ELSE IF st.currentGroup = <<>>
              THEN st
              ELSE [st EXCEPT !.Info = AppendLine(st.Info, st.currentGroup, line)]

RECURSIVE ParseLines(_, _)
ParseLines(st, ls) ==
    IF ls = <<>> THEN st ELSE ParseLines(ParseLine(st, Head(ls)), Tail(ls))

(***************************************************************************)
(* package doc: NewDocx                                                    *)
(*                                                                         *)
(* A container is [valid, files]: valid says that zip.NewReader accepts    *)
(* it, files are the entries of zipReader.File in archive order, each      *)
(* [name, data, opens] (opens: file.Open() succeeds).                      *)
(***************************************************************************)
XmlFileName ==
    <<119, 111, 114, 100, 47, 100, 111, 99, 117, 109, 101, 110, 116, 46, 120, 109, 108>>
                                                              \* "word/document.xml"
JpgSuffix == <<46, 106, 112, 103>>                            \* ".jpg"

JpegSuffix == <<46, 106, 112, 101, 103>>                      \* ".jpeg"

DocxSuffix == <<46, 100, 111, 99, 120>>                       \* ".docx"

\* doc = new(Docx): xmlData and Image are nil; ret is "loop" while NewDocx runs
NewDocxStart ==
    [xmlSet |-> FALSE, xmlData |-> <<>>, imgSet |-> FALSE, Image |-> <<>>,
     ret |-> "loop"]

IsImageName(lowerFileName) ==
    HasSuffix(lowerFileName, JpgSuffix) \/ HasSuffix(lowerFileName, JpegSuffix)

\* one iteration of "for _, file := range zipReader.File"
NewDocxFile(doc, file) ==
    IF doc.xmlSet /\ doc.imgSet
    THEN [doc EXCEPT !.ret = "ok"]
    ELSE IF ~doc.imgSet /\ IsImageName(ToLower(file.name))
    THEN IF ~file.opens
         THEN doc
         ELSE [doc EXCEPT !.imgSet = TRUE, !.Image = file.data]
    ELSE IF ~doc.xmlSet /\ ToLower(file.name) = XmlFileName
    THEN IF ~file.opens
         THEN [doc EXCEPT !.ret = "OpenError"]
         ELSE [doc EXCEPT !.xmlSet = TRUE, !.xmlData = file.data]
    ELSE doc

\* the statements after the loop
NewDocxEnd(doc) ==
    IF doc.xmlSet /\ doc.imgSet
    THEN [doc EXCEPT !.ret = "ok"]
    ELSE [NewDocxStart EXCEPT !.ret = "ErrMissingDocument"]

RECURSIVE NewDocxLoop(_, _)
NewDocxLoop(doc, files) ==
    IF doc.ret # "loop" THEN doc
    ELSE IF files = <<>> THEN NewDocxEnd(doc)
    ELSE NewDocxLoop(NewDocxFile(doc, Head(files)), Tail(files))

\* NewDocx: the Docx and, in ret, the error returned ("ok" for nil)
NewDocx(zip) ==
    IF ~zip.valid
    THEN [NewDocxStart EXCEPT !.ret = "ZipError"]
    ELSE NewDocxLoop(NewDocxStart, zip.files)

(***************************************************************************)
(* package recipe: Recipe.ParseFiles, in the three parts a task runs       *)
(***************************************************************************)
\* byte-wise order of Go strings
RECURSIVE StringLess(_, _)
StringLess(a, b) ==
    IF b = <<>> THEN FALSE
    ELSE IF a = <<>> THEN TRUE
    ELSE IF Head(a) # Head(b) THEN Head(a) < Head(b)
    ELSE StringLess(Tail(a), Tail(b))

RECURSIVE InsertString(_, _)
InsertString(sorted, x) ==
    IF sorted = <<>> THEN <<x>>
    ELSE IF StringLess(x, Head(sorted)) THEN <<x>> \o sorted
    ELSE <<Head(sorted)>> \o InsertString(Tail(sorted), x)

\* sort.Strings
RECURSIVE SortStrings(_)
SortStrings(ss) ==
    IF ss = <<>> THEN <<>>
    ELSE InsertString(SortStrings(SubSeq(ss, 1, Len(ss) - 1)), ss[Len(ss)])

IsScanName(name) ==
    HasSuffix(ToLower(name), JpgSuffix) \/ HasSuffix(ToLower(name), JpegSuffix)

\* the scan paths: the .jpg / .jpeg files of the directory, sorted
ScanPathsOf(siblings) == SortStrings(SelectSeq(siblings, IsScanName))

\* &Recipe{DocxPath: path}
NewRecipe(path) ==
    [DocxPath |-> path, Title |-> <<>>, Info |-> EmptyMap, ScanPaths |-> <<>>,
     Image |-> <<>>]

\* ParseFiles up to sort.Strings(r.ScanPaths)
ParseFilesScan(r, item) == [r EXCEPT !.ScanPaths = ScanPathsOf(item.siblings)]

\* ParseFiles from os.Open to r.Image = docx.Image
ParseFilesDocx(r, item) ==
    IF NewDocx(item.zip).ret # "ok" THEN r
    ELSE [r EXCEPT !.Image = NewDocx(item.zip).Image]

\* ParseFiles from docx.Text() to its return
ParseFilesLines(r, item) ==
    IF Text(item.tokens, item.xmlBad).err THEN r
    ELSE [r EXCEPT
            !.Title = ParseLines(ParseStart, Text(item.tokens, item.xmlBad).lines).Title,
            !.Info = ParseLines(ParseStart, Text(item.tokens, item.xmlBad).lines).Info]

(***************************************************************************)
(* package main: the fingerprint of a recipe and the item.idx file         *)
(***************************************************************************)
\* sha256.Size, the width of a digest in bytes
Sha256Size == 32

\* the bytes NewHandler writes to the hasher: the title, then every line of
\* every category present, in ValidCategoriesOrder
RECURSIVE ConcatLines(_)
ConcatLines(ls) == IF ls = <<>> THEN <<>> ELSE Head(ls) \o ConcatLines(Tail(ls))

RECURSIVE HashCategories(_, _)
HashCategories(info, order) ==
    IF order = <<>> THEN <<>>
    ELSE (IF Head(order) \in DOMAIN info THEN ConcatLines(info[Head(order)]) ELSE <<>>)
         \o HashCategories(info, Tail(order))

HashInput(recip) == recip.Title \o HashCategories(recip.Info, ValidCategoriesOrder)

\* SHA-256 as a collision-free function of the bytes written, Sha256Size wide:
\* digest byte k is 256 + (byte k of the input), 256 past its end.  Digest
\* bytes are thus never text bytes; the inputs of the model are shorter than
\* Sha256Size and hold no zero byte.
Sha256(msg) ==
    [k \in 1..Sha256Size |-> IF k <= Len(msg) THEN 256 + msg[k] ELSE 256]

\* hasher.Sum(nil) for a recipe
Digest(recip) == Sha256(HashInput(recip))

\* SaveItemIndex: the records key, '\n', digest in the order keys, which is the
\* order in which "range itemIndex" yields them
RECURSIVE SaveItemIndex(_, _)
SaveItemIndex(itemIdx, keys) ==
    IF keys = <<>> THEN <<>>
    ELSE Head(keys) \o <<Newline>> \o itemIdx[Head(keys)]
         \o SaveItemIndex(itemIdx, Tail(keys))

\* place of the first '\n' in data, 0 if there is none
RECURSIVE IndexByte(_, _, _)
IndexByte(data, c, from) ==
    IF from > Len(data) THEN 0
    ELSE IF data[from] = c THEN from
    ELSE IndexByte(data, c, from + 1)

\* reader.Read(sha256sum) with n bytes left to read: the bytes read, then the
\* zero bytes of make([]byte, sha256.Size) that were not overwritten.  The whole
\* file is in the bufio buffer (it is shorter than 4096 bytes), so that Read
\* returns min(n, sha256.Size) bytes.
ReadDigest(data) ==
    [k \in 1..Sha256Size |-> IF k <= Len(data) THEN data[k] ELSE 0]

\* the loop of GetItemIndex on the unread bytes: [ok, index]
RECURSIVE GetItemIndexLoop(_, _)
GetItemIndexLoop(itemIdx, data) ==
    IF IndexByte(data, Newline, 1) = 0
    THEN [ok |-> TRUE, index |-> itemIdx]
    ELSE LET nl   == IndexByte(data, Newline, 1)
             key  == SubSeq(data, 1, nl - 1)
             rest == SubSeq(data, nl + 1, Len(data))
         IN  IF rest = <<>>
             THEN [ok |-> FALSE, index |-> EmptyMap]
             ELSE GetItemIndexLoop(MapPut(itemIdx, key, ReadDigest(rest)),
                                   SubSeq(rest, Sha256Size + 1, Len(rest)))

\* GetItemIndex: a file that cannot be opened is an error
GetItemIndex(f) ==
    IF ~f.exists THEN [ok |-> FALSE, index |-> EmptyMap]
    ELSE GetItemIndexLoop(EmptyMap, f.bytes)

\* itemIndex as NewHandler has it before its loop: empty when loading failed
LoadItemIndex(f) == IF GetItemIndex(f).ok THEN GetItemIndex(f).index ELSE EmptyMap

\* every order in which a map with these keys can be ranged over
Orders(keys) ==
    {o \in [1..Cardinality(keys) -> keys] : \A a, b \in DOMAIN o : a # b => o[a] # o[b]}

(***************************************************************************)
(* State                                                                   *)
(***************************************************************************)
VARIABLES
    \* Recipe.ParseFiles of one document, line by line (SpecParse)
    tokens,        \* the xml token stream of word/document.xml
    xmlBad,        \* the decoder fails before io.EOF
    lines,         \* the result of docx.Text()
    pos,           \* number of lines the loop has consumed
    pst,           \* Title, Info, titleIsNext, currentGroup
    ppc,           \* "text", "loop", "done" (returned nil), "error" (returned err)
    hist,          \* pst after each consumed line
    \* RecipesFromPath (SpecLoad)
    walk,          \* what filepath.Walk visits, in walk order
    recipes,       \* the slice recipes
    mpc,           \* RecipesFromPath: "walk", "spawn", "wait", "returned"
    next,          \* index of the next recipe of the "go" loop
    wg,            \* the WorkerGroup counter
    tpc,           \* per task: "none", "started", "scanned", "opened", "done"
    tdocx,         \* per task: the result of doc.NewDocx
    perr,          \* per task: what ParseFiles returned (discarded by the task)
    writers,       \* per recipe: the tasks that wrote it
    doneOrder,     \* the tasks in the order they finished
    ret,           \* the slice RecipesFromPath returned
    \* NewHandler: the synchronisation of index and cache (Spec, SpecReject)
    recipeSlice,   \* what RecipesFromPath returns for the corpus on disk
    idx,           \* the bleve index: document id -> document
    file,          \* the item.idx file: [exists, bytes]
    itemIndex,     \* the fingerprint cache in memory: title -> digest
    hrecipes,      \* handler.recipes: title -> place in recipeSlice
    at,            \* place of the next recipe of the loop
    spc,           \* "idle", "loop", "done" (handler returned), "failed"
    calls,         \* the Index and Delete calls of the current pass, in order
    loaded,        \* itemIndex as the current pass loaded it
    file0,         \* the item.idx file as the current pass found it
    change,        \* what happened to the corpus since the last pass began
    since,         \* change, as the current pass found it
    faulty         \* the search engine may reject an Index call

parseVars == <<tokens, xmlBad, lines, pos, pst, ppc, hist>>

loadVars == <<walk, recipes, mpc, next, wg, tpc, tdocx, perr, writers, doneOrder, ret>>

syncVars == <<recipeSlice, idx, file, itemIndex, hrecipes, at, spc, calls, loaded,
              file0, change, since, faulty>>

vars == <<parseVars, loadVars, syncVars>>

\* the variables of a part of the program that a specification does not run
ParseIdle ==
    /\ tokens = <<>>
    /\ xmlBad = FALSE
    /\ lines = <<>>
    /\ pos = 0
    /\ pst = ParseStart
    /\ ppc = "idle"
    /\ hist = <<>>

SyncIdle ==
    /\ recipeSlice = <<>>
    /\ idx = EmptyMap
    /\ file = [exists |-> FALSE, bytes |-> <<>>]
    /\ itemIndex = EmptyMap
    /\ hrecipes = EmptyMap
    /\ at = 1
    /\ spc = "off"
    /\ calls = <<>>
    /\ loaded = EmptyMap
    /\ file0 = [exists |-> FALSE, bytes |-> <<>>]
    /\ change = [kind |-> "first", at |-> 0]
    /\ since = [kind |-> "first", at |-> 0]
    /\ faulty = FALSE

LoadIdle ==
    /\ walk = <<>>
    /\ recipes = <<>>
    /\ mpc = "idle"
    /\ next = 1
    /\ wg = 0
    /\ tpc = <<>>
    /\ tdocx = <<>>
    /\ perr = <<>>
    /\ writers = <<>>
    /\ doneOrder = <<>>
    /\ ret = <<>>

(***************************************************************************)
(* SpecParse: Docx.Text followed by the line loop of Recipe.ParseFiles     *)
(***************************************************************************)
TokBody    == [kind |-> "StartElement", text |-> <<66, 111, 100, 121>>]  \* <Body>
TokRecipe  == [kind |-> "CharData", text |-> <<82, 101, 99, 105, 112, 101>>]
                                                              \* "Recipe"
TokPie     == [kind |-> "CharData", text |-> <<80, 105, 101>>]  \* "Pie"
TokServes  == [kind |-> "CharData", text |-> <<83, 101, 114, 118, 101, 115, 58>>]
                                                              \* "Serves:"
TokTIps    == [kind |-> "CharData", text |-> <<84, 58, 105, 112, 115>>]
                                                              \* "T:ips"
TokX       == [kind |-> "CharData", text |-> <<32, 120, 10>>] \* " x\n"
TokBlank   == [kind |-> "CharData", text |-> <<32>>]          \* " "

TokenPool == {TokBody, TokRecipe, TokPie, TokServes, TokTIps, TokX, TokBlank}

InitParse ==
    /\ tokens \in SeqsUpTo(TokenPool, MaxTokens)
    /\ xmlBad \in BOOLEAN
    /\ lines = <<>>
    /\ pos = 0
    /\ pst = ParseStart
    /\ ppc = "text"
    /\ hist = <<>>
    /\ LoadIdle
    /\ SyncIdle

\* lines, err := docx.Text(); if err != nil { return err }
ParseText ==
    /\ ppc = "text"
    /\ lines' = Text(tokens, xmlBad).lines
    /\ ppc' = IF Text(tokens, xmlBad).err THEN "error" ELSE "loop"
    /\ UNCHANGED <<tokens, xmlBad, pos, pst, hist, loadVars, syncVars>>

\* one iteration of the line loop
ParseStep ==
    /\ ppc = "loop"
    /\ pos < Len(lines)
    /\ pos' = pos + 1
    /\ pst' = ParseLine(pst, lines[pos + 1])
    /\ hist' = Append(hist, pst')
    /\ UNCHANGED <<tokens, xmlBad, lines, ppc, loadVars, syncVars>>

\* return nil
ParseReturn ==
    /\ ppc = "loop"
    /\ pos = Len(lines)
    /\ ppc' = "done"
    /\ UNCHANGED <<tokens, xmlBad, lines, pos, pst, hist, loadVars, syncVars>>

NextParse == ParseText \/ ParseStep \/ ParseReturn

SpecParse == InitParse /\ [][NextParse]_vars

(***************************************************************************)
(* Properties of the line loop (SpecParse)                                 *)
(***************************************************************************)
\* the loop state before and after line k was consumed
Before(k) == IF k = 1 THEN ParseStart ELSE hist[k - 1]

After(k) == hist[k]

\* line k contains "recipe" whatever the case of its letters
IsTrigger(k) == Contains(ToLower(lines[k]), RecipeWord)

\* the lines that contain "recipe" and are not the last line
Triggers == {k \in 1..(Len(lines) - 1) : IsTrigger(k)}

FirstTrigger == CHOOSE k \in Triggers : \A j \in Triggers : k <= j

\* C5: when ParseFiles returns, the title is the line that follows the first
\* line containing "recipe" (case-insensitively) that is not the last line;
\* without such a line the title is empty; and ParseFiles returns an error
\* only when docx.Text() did.
C5_TitleFollowsFirstRecipeLine ==
    /\ ppc = "done" =>
          IF Triggers # {}
          THEN pst.Title = lines[FirstTrigger + 1]
          ELSE pst.Title = <<>>
    /\ ppc = "error" => xmlBad

\* a returned parse whose title follows a "recipe" line that is not the first line
C5_Witness ==
    /\ ppc = "done"
    /\ Triggers # {}
    /\ FirstTrigger > 1
    /\ pst.Title = lines[FirstTrigger + 1]
    /\ pst.Title # <<>>

\* line k arrived in the content phase (the title was already set)
InContentPhase(k) == k \in 1..Len(hist) /\ Before(k).Title # <<>>

\* line k opened a category: it was not stored and a current category is set
Opened(k) ==
    /\ InContentPhase(k)
    /\ After(k).Info = Before(k).Info
    /\ After(k).currentGroup # <<>>
    /\ After(k).currentGroup \in validCategories

\* the line with one trailing colon stripped
StripTrailingColon(s) ==
    IF s # <<>> /\ s[Len(s)] = Colon THEN SubSeq(s, 1, Len(s) - 1) ELSE s

\* the line with every colon removed
StripEveryColon(s) == SelectSeq(s, LAMBDA c : c # Colon)

\* a colon somewhere before the last byte
HasInnerColon(s) == \E j \in 1..(Len(s) - 1) : s[j] = Colon

\* C6 as stated: a content-phase line opens a category iff the line with only a
\* trailing colon stripped, lowercased, is a category name; a line with a colon
\* elsewhere never opens one.
C6_Original_TrailingColonOnly ==
    \A k \in 1..Len(hist) :
        InContentPhase(k) =>
            /\ Opened(k) <=> ToLower(StripTrailingColon(lines[k])) \in validCategories
            /\ HasInnerColon(lines[k]) => ~Opened(k)

\* C6 amended: a content-phase line opens a category iff the line with every
\* colon removed, lowercased, is a category name, and that name becomes the
\* current category.
C6_EveryColonRemoved ==
    \A k \in 1..Len(hist) :
        InContentPhase(k) =>
            /\ Opened(k) <=> ToLower(StripEveryColon(lines[k])) \in validCategories
            /\ Opened(k) => After(k).currentGroup = ToLower(StripEveryColon(lines[k]))

\* a line with a colon inside ("T:ips") opened a category, and a later line was
\* stored under it
C6_Witness ==
    \E k \in 1..Len(hist) :
        /\ Opened(k)
        /\ HasInnerColon(lines[k])
        /\ After(k).currentGroup = Tips
        /\ ppc = "done"
        /\ Tips \in DOMAIN pst.Info

(***************************************************************************)
(* SpecLines: SpecParse on longer documents: <body> and then up to MaxText *)
(* text nodes, none of them blank                                          *)
(***************************************************************************)
TextPool == {TokRecipe, TokPie, TokServes, TokTIps}

InitLines ==
    /\ tokens \in {<<TokBody>> \o t : t \in SeqsUpTo(TextPool, MaxText)}
    /\ xmlBad = FALSE
    /\ lines = <<>>
    /\ pos = 0
    /\ pst = ParseStart
    /\ ppc = "text"
    /\ hist = <<>>
    /\ LoadIdle
    /\ SyncIdle

SpecLines == InitLines /\ [][NextParse]_vars

\* the place of the title line, 0 if no line becomes the title
TitleAt == IF Triggers # {} THEN FirstTrigger + 1 ELSE 0

\* the name a line is looked up under
NameOf(line) == ToLower(StripEveryColon(line))

\* the lines after the title that name a category
Openers ==
    {k \in 1..Len(lines) : TitleAt # 0 /\ k > TitleAt /\ NameOf(lines[k]) \in validCategories}

\* the last of the lines op before line k, 0 if there is none
Governing(op, k) ==
    LET S == {j \in op : j < k}
    IN  IF S = {} THEN 0 ELSE CHOOSE j \in S : \A m \in S : m <= j

\* line k is content of category c, when the title is line ta and the lines op
\* name a category
IsStoredUnder(ta, op, c, k) ==
    /\ ta # 0
    /\ k > ta
    /\ k \notin op
    /\ Governing(op, k) # 0
    /\ NameOf(lines[Governing(op, k)]) = c

\* line k comes after the title and before the first line that names a category
IsDiscarded(ta, op, k) == ta # 0 /\ k > ta /\ k \notin op /\ Governing(op, k) = 0

\* the content of category c among the first n lines, in document order
RECURSIVE StoredUnder(_, _, _, _)
StoredUnder(ta, op, c, n) ==
    IF n = 0 THEN <<>>
    ELSE StoredUnder(ta, op, c, n - 1)
            \o (IF IsStoredUnder(ta, op, c, n) THEN <<lines[n]>> ELSE <<>>)

\* C13: after every line of the loop, each category holds exactly the lines
\* that came after the title, name no category and follow a line naming this
\* category more closely than a line naming another, unmodified and in document
\* order; a line naming a category, and a line between the title and the first
\* such line, is in no category.
C13_CategoriesHoldRawLinesInOrder ==
    LET ta == TitleAt
        op == Openers
    IN  /\ DOMAIN pst.Info = {c \in validCategories : StoredUnder(ta, op, c, pos) # <<>>}
        /\ \A c \in DOMAIN pst.Info : pst.Info[c] = StoredUnder(ta, op, c, pos)

\* a returned parse with a line discarded before the first category, and a
\* category of two lines of which one is changed by lowercasing
C13_Witness ==
    /\ ppc = "done"
    /\ \E k \in 1..Len(lines) : IsDiscarded(TitleAt, Openers, k)
    /\ \E c \in DOMAIN pst.Info :
          /\ Len(pst.Info[c]) >= 2
          /\ \E n \in 1..Len(pst.Info[c]) : pst.Info[c][n] # LowerLine(pst.Info[c][n])
          /\ pst.Info[c] = StoredUnder(TitleAt, Openers, c, Len(lines))

(***************************************************************************)
(* SpecLoad: RecipesFromPath, one concurrent ParseFiles task per document  *)
(*                                                                         *)
(* A walk item is [name, isDir, zip, tokens, xmlBad, siblings]: the name   *)
(* of the path, the container found there, the token stream the xml        *)
(* decoder yields for its word/document.xml, and the file names of its     *)
(* directory.  The path of item i is modelled by i, its place in the walk. *)
(* ioutil.ReadDir, os.Open and file.Stat succeed on a file the walk has    *)
(* just visited.                                                           *)
(***************************************************************************)
FileXml == [name |-> XmlFileName, data |-> <<60, 119, 62>>, opens |-> TRUE]

\* "Word/Document.xml"
FileXmlUpper ==
    [name |-> <<87, 111, 114, 100, 47, 68, 111, 99, 117, 109, 101, 110, 116, 46,
                120, 109, 108>>,
     data |-> <<60, 87, 62>>, opens |-> TRUE]

\* "media/a.JPG"
FileJpg ==
    [name |-> <<109, 101, 100, 105, 97, 47, 97, 46, 74, 80, 71>>,
     data |-> <<255, 216>>, opens |-> TRUE]

\* "r.txt", "s.jpg", "S.JPEG"
SiblingNames == <<<<114, 46, 116, 120, 116>>, <<115, 46, 106, 112, 103>>,
                  <<83, 46, 74, 80, 69, 71>>>>

\* a.docx: body and image; title "Pie", serves = <<"x">>
ItemGood ==
    [name |-> <<97, 46, 100, 111, 99, 120>>, isDir |-> FALSE,
     zip |-> [valid |-> TRUE, files |-> <<FileXml, FileJpg>>],
     tokens |-> <<TokBody, TokRecipe, TokPie, TokServes, TokX>>, xmlBad |-> FALSE,
     siblings |-> SiblingNames]

\* B.DOCX: image first, then the body under another case; no title line
ItemNoTitle ==
    [name |-> <<66, 46, 68, 79, 67, 88>>, isDir |-> FALSE,
     zip |-> [valid |-> TRUE, files |-> <<FileJpg, FileXmlUpper>>],
     tokens |-> <<TokBody, TokX>>, xmlBad |-> FALSE,
     siblings |-> <<>>]

\* c.docx: the body and no image
ItemNoImage ==
    [name |-> <<99, 46, 100, 111, 99, 120>>, isDir |-> FALSE,
     zip |-> [valid |-> TRUE, files |-> <<FileXml>>],
     tokens |-> <<TokBody, TokRecipe, TokPie>>, xmlBad |-> FALSE,
     siblings |-> <<>>]

\* d.docx: an image and no body
ItemNoBody ==
    [name |-> <<100, 46, 100, 111, 99, 120>>, isDir |-> FALSE,
     zip |-> [valid |-> TRUE, files |-> <<FileJpg>>],
     tokens |-> <<>>, xmlBad |-> FALSE,
     siblings |-> <<>>]

\* n.txt: not a docx file
ItemText ==
    [name |-> <<110, 46, 116, 120, 116>>, isDir |-> FALSE,
     zip |-> [valid |-> FALSE, files |-> <<>>],
     tokens |-> <<>>, xmlBad |-> FALSE,
     siblings |-> <<>>]

\* e.docx: body and image, but the xml decoder fails before io.EOF
ItemBadXml ==
    [name |-> <<101, 46, 100, 111, 99, 120>>, isDir |-> FALSE,
     zip |-> [valid |-> TRUE, files |-> <<FileXml, FileJpg>>],
     tokens |-> <<TokBody, TokRecipe>>, xmlBad |-> TRUE,
     siblings |-> <<>>]

\* a directory whose name ends in .docx
ItemDir ==
    [name |-> <<100, 46, 100, 111, 99, 120>>, isDir |-> TRUE,
     zip |-> [valid |-> FALSE, files |-> <<>>],
     tokens |-> <<>>, xmlBad |-> FALSE,
     siblings |-> <<>>]

ItemPool ==
    {ItemGood, ItemNoTitle, ItemNoImage, ItemNoBody, ItemText, ItemBadXml, ItemDir}

\* the walk function: the recipes appended for the items from place i on
RECURSIVE WalkFrom(_, _)
WalkFrom(items, i) ==
    IF i > Len(items) THEN <<>>
    ELSE IF items[i].isDir \/ ~HasSuffix(ToLower(items[i].name), DocxSuffix)
    THEN WalkFrom(items, i + 1)
    ELSE <<NewRecipe(i)>> \o WalkFrom(items, i + 1)

\* mutant: the go func reads the loop variable recipe instead of a parameter;
\* the variable holds the recipe of the latest iteration
TaskRecipe_LoopVariable(j) == next - 1

\* the recipe a task works on: the parameter of the go func, bound at the call
TaskRecipe(j) == j

\* the walk item of recipe j
ItemOf(j) == walk[recipes[j].DocxPath]

\* mutant: wg.Wait() returns at once
WaitReturns_NoBarrier(counter) == TRUE

\* wg.Wait() returns when the counter is zero
WaitReturns(counter) == counter = 0

\* mutant: the documents whose ParseFiles failed are dropped from the result
Returned_DropFailed(rs) == SelectSeq(rs, LAMBDA r : r.Title # <<>>)

\* the named result recipes at "return"
Returned(rs) == rs

InitLoad ==
    /\ walk \in SeqsUpTo(ItemPool, MaxWalk)
    /\ recipes = <<>>
    /\ mpc = "walk"
    /\ next = 1
    /\ wg = 0
    /\ tpc = <<>>
    /\ tdocx = <<>>
    /\ perr = <<>>
    /\ writers = <<>>
    /\ doneOrder = <<>>
    /\ ret = <<>>
    /\ ParseIdle
    /\ SyncIdle

\* filepath.Walk: one recipe per .docx file, in walk order
Walk ==
    /\ mpc = "walk"
    /\ recipes' = WalkFrom(walk, 1)
    /\ tpc' = [j \in 1..Len(recipes') |-> "none"]
    /\ tdocx' = [j \in 1..Len(recipes') |-> NewDocxStart]
    /\ perr' = [j \in 1..Len(recipes') |-> "none"]
    /\ writers' = [j \in 1..Len(recipes') |-> {}]
    /\ mpc' = "spawn"
    /\ UNCHANGED <<walk, next, wg, doneOrder, ret, parseVars, syncVars>>

\* one iteration of the loop: wg.Add(1); go func(recipe)
Spawn ==
    /\ mpc = "spawn"
    /\ next <= Len(recipes)
    /\ wg' = wg + 1
    /\ tpc' = [tpc EXCEPT ![next] = "started"]
    /\ next' = next + 1
    /\ UNCHANGED <<walk, recipes, mpc, tdocx, perr, writers, doneOrder, ret, parseVars, syncVars>>

\* task j: ParseFiles up to the sorted scan paths
TaskScan(j) ==
    /\ tpc[j] = "started"
    /\ recipes' = [recipes EXCEPT
                     ![TaskRecipe(j)] = ParseFilesScan(recipes[TaskRecipe(j)], ItemOf(j))]
    /\ writers' = [writers EXCEPT ![TaskRecipe(j)] = @ \cup {j}]
    /\ tpc' = [tpc EXCEPT ![j] = "scanned"]
    /\ UNCHANGED <<walk, mpc, next, wg, tdocx, perr, doneOrder, ret, parseVars, syncVars>>

\* task j: os.Open, doc.NewDocx, r.Image; on an error ParseFiles returns it
\* and the task calls wg.Done()
TaskDocx(j) ==
    /\ tpc[j] = "scanned"
    /\ tdocx' = [tdocx EXCEPT ![j] = NewDocx(ItemOf(j).zip)]
    /\ recipes' = [recipes EXCEPT
                     ![TaskRecipe(j)] = ParseFilesDocx(recipes[TaskRecipe(j)], ItemOf(j))]
    /\ writers' = [writers EXCEPT ![TaskRecipe(j)] = @ \cup {j}]
    /\ IF tdocx'[j].ret = "ok"
       THEN /\ tpc' = [tpc EXCEPT ![j] = "opened"]
            /\ UNCHANGED <<perr, wg, doneOrder>>
       ELSE /\ tpc' = [tpc EXCEPT ![j] = "done"]
            /\ perr' = [perr EXCEPT ![j] = tdocx'[j].ret]
            /\ wg' = wg - 1
            /\ doneOrder' = Append(doneOrder, j)
    /\ UNCHANGED <<walk, mpc, next, ret, parseVars, syncVars>>

\* task j: docx.Text(), the line loop, return; then wg.Done()
TaskLines(j) ==
    /\ tpc[j] = "opened"
    /\ recipes' = [recipes EXCEPT
                     ![TaskRecipe(j)] = ParseFilesLines(recipes[TaskRecipe(j)], ItemOf(j))]
    /\ writers' = [writers EXCEPT ![TaskRecipe(j)] = @ \cup {j}]
    /\ perr' = [perr EXCEPT
                  ![j] = IF Text(ItemOf(j).tokens, ItemOf(j).xmlBad).err
                         THEN "XmlError" ELSE "nil"]
    /\ tpc' = [tpc EXCEPT ![j] = "done"]
    /\ wg' = wg - 1
    /\ doneOrder' = Append(doneOrder, j)
    /\ UNCHANGED <<walk, mpc, next, tdocx, ret, parseVars, syncVars>>

\* wg.Wait(); return
WaitAndReturn ==
    /\ mpc = "spawn"
    /\ next > Len(recipes)
    /\ WaitReturns(wg)
    /\ ret' = Returned(recipes)
    /\ mpc' = "returned"
    /\ UNCHANGED <<walk, recipes, next, wg, tpc, tdocx, perr, writers, doneOrder,
                   parseVars, syncVars>>

NextLoad ==
    \/ Walk
    \/ Spawn
    \/ \E j \in 1..Len(recipes) : TaskScan(j)
    \/ \E j \in 1..Len(recipes) : TaskDocx(j)
    \/ \E j \in 1..Len(recipes) : TaskLines(j)
    \/ WaitAndReturn

SpecLoad == InitLoad /\ [][NextLoad]_vars

(***************************************************************************)
(* Properties of NewDocx and RecipesFromPath (SpecLoad)                    *)
(***************************************************************************)
\* the container has an entry named word/document.xml, whatever the case
HasBodyEntry(zip) ==
    \E k \in 1..Len(zip.files) : ToLower(zip.files[k].name) = XmlFileName

HasImageEntry(zip) ==
    \E k \in 1..Len(zip.files) :
        \/ HasSuffix(ToLower(zip.files[k].name), JpgSuffix)
        \/ HasSuffix(ToLower(zip.files[k].name), JpegSuffix)

\* task j has called doc.NewDocx
CalledNewDocx(j) == tpc[j] \in {"opened", "done"}

\* C7: NewDocx succeeds on a readable container that has the word/document.xml
\* entry, with or without an image entry, and returns ErrMissingDocument only
\* when the word/document.xml entry is absent.
C7_BodyWithoutImageSucceeds ==
    \A j \in 1..Len(recipes) :
        CalledNewDocx(j) =>
            /\ (ItemOf(j).zip.valid /\ HasBodyEntry(ItemOf(j).zip))
                   => tdocx[j].ret = "ok"
            /\ tdocx[j].ret = "ErrMissingDocument" => ~HasBodyEntry(ItemOf(j).zip)

\* the places of the walk that hold a .docx file
DocxPlaces ==
    {i \in 1..Len(walk) : ~walk[i].isDir /\ HasSuffix(ToLower(walk[i].name), DocxSuffix)}

\* ParseFiles of task j returned an error
Failed(j) == perr[j] \notin {"none", "nil"}

\* C8 as stated: a document whose ParseFiles failed is absent from the returned
\* collection, and every document whose extraction succeeded is present.
C8_Original_FailedDocumentDropped ==
    mpc = "returned" =>
        \A j \in 1..Len(recipes) :
            /\ Failed(j) =>
                  \A k \in 1..Len(ret) : ret[k].DocxPath # recipes[j].DocxPath
            /\ perr[j] = "nil" =>
                  \E k \in 1..Len(ret) : ret[k].DocxPath = recipes[j].DocxPath

\* C8 amended: every .docx document of the walk is in the returned collection;
\* a document whose ParseFiles failed is there with an empty title and no
\* categories, a document whose extraction succeeded is there with its title
\* and categories.
C8_FailedDocumentKeptWithoutTitle ==
    mpc = "returned" =>
        /\ Len(ret) = Cardinality(DocxPlaces)
        /\ {ret[k].DocxPath : k \in 1..Len(ret)} = DocxPlaces
        /\ \A k \in 1..Len(ret) :
              LET item == walk[ret[k].DocxPath]
                  parsed == ParseLines(ParseStart, Text(item.tokens, FALSE).lines)
                  fails == \/ ~item.zip.valid
                           \/ ~HasBodyEntry(item.zip)
                           \/ ~HasImageEntry(item.zip)
                           \/ item.xmlBad
              IN  /\ fails => Failed(k) /\ ret[k].Title = <<>> /\ ret[k].Info = EmptyMap
                  /\ ~fails => /\ perr[k] = "nil"
                               /\ ret[k].Title = parsed.Title
                               /\ ret[k].Info = parsed.Info

\* a load returned a document that lacks the body next to one that was extracted
C8_Witness ==
    /\ mpc = "returned"
    /\ \E j, k \in 1..Len(ret) :
          /\ perr[j] = "ErrMissingDocument"
          /\ ~HasBodyEntry(walk[ret[j].DocxPath].zip)
          /\ ret[j].Title = <<>>
          /\ perr[k] = "nil"
          /\ ret[k].Title # <<>>

\* C10: RecipesFromPath returns only after every task has finished, every task
\* has written the recipe of its own document only, and the returned sequence
\* is in walk order, whatever the order in which the tasks finished.
C10_JoinOwnRecipeWalkOrder ==
    /\ \A j \in 1..Len(writers) : writers[j] \subseteq {j}
    /\ mpc = "returned" =>
          /\ \A j \in 1..Len(recipes) : tpc[j] = "done"
          /\ Len(doneOrder) = Len(recipes)
          /\ Len(ret) = Cardinality(DocxPlaces)
          /\ \A k \in 1..Len(ret) : ret[k].DocxPath \in DocxPlaces
          /\ \A k \in 1..(Len(ret) - 1) : ret[k].DocxPath < ret[k + 1].DocxPath
          /\ \A k \in 1..Len(ret) : ret[k] = recipes[k]

\* a load returned after its tasks finished in another order than the walk order
C10_Witness ==
    /\ mpc = "returned"
    /\ Len(ret) >= 2
    /\ doneOrder[1] # 1
    /\ \A j \in 1..Len(ret) : writers[j] = {j}

(***************************************************************************)
(* Spec, SpecReject: NewHandler from the load of item.idx to its save,     *)
(* run again and again on a corpus that changes between the runs of the    *)
(* process.                                                                *)
(*                                                                         *)
(* The index is opened with an index path (bleve.Open / bleve.New), so it  *)
(* and item.idx outlive the process.  A recipe is [Title, Info], the       *)
(* fields NewHandler reads.  bleve's Index(id, doc) puts doc under id,     *)
(* Delete(id) removes id; the results of Delete are not looked at by       *)
(* NewHandler.  os.Create and the writes of SaveItemIndex succeed.         *)
(***************************************************************************)
TitleA  == <<97>>                                              \* "a"
TitleB  == <<98>>                                              \* "b"
TitleAB == <<97, 10, 98>>                                      \* "a\nb"
LineX   == <<120>>                                             \* "x"
LineY   == <<121>>                                             \* "y"

RecipeAX  == [Title |-> TitleA, Info |-> MapPut(EmptyMap, Ingredients, <<LineX>>)]
RecipeAY  == [Title |-> TitleA, Info |-> MapPut(EmptyMap, Ingredients, <<LineY>>)]
RecipeB   == [Title |-> TitleB, Info |-> MapPut(EmptyMap, Tips, <<LineX>>)]
RecipeAB  == [Title |-> TitleAB, Info |-> EmptyMap]
RecipeNoTitle == [Title |-> <<>>, Info |-> EmptyMap]

RecipePool == {RecipeAX, RecipeAY, RecipeB, RecipeAB, RecipeNoTitle}

Corpora == SeqsUpTo(RecipePool, MaxRecipes)

\* recipes that differ in exactly one line of one category
OneLineChanged(r, q) ==
    /\ r.Title = q.Title
    /\ DOMAIN r.Info = DOMAIN q.Info
    /\ \E c \in DOMAIN r.Info :
          /\ Len(r.Info[c]) = Len(q.Info[c])
          /\ \E n \in 1..Len(r.Info[c]) :
                /\ r.Info[c][n] # q.Info[c][n]
                /\ \A m \in 1..Len(r.Info[c]) : m # n => r.Info[c][m] = q.Info[c][m]
          /\ \A d \in DOMAIN r.Info : d # c => r.Info[d] = q.Info[d]

\* the calls on the search index
IndexCall(id, place, ok) == [op |-> "Index", id |-> id, doc |-> place, ok |-> ok]

DeleteCall(id) == [op |-> "Delete", id |-> id, doc |-> 0, ok |-> TRUE]

\* mutant: a recipe replaces an earlier one of the same title
IsDuplicate_LastWins(title, accepted) == FALSE

\* "if oldRecip, exists := handler.recipes[recip.Title]; exists"
IsDuplicate(title, accepted) == title \in DOMAIN accepted

\* mutant: a failed Index call is only reported
IndexFailureReturns_Continue(ok) == FALSE

\* "if err != nil { return nil, fmt.Errorf("Index fail: ...") }"
IndexFailureReturns(ok) == ~ok

\* mutant: nothing is pruned
Missing_None(itemIdx, accepted) == {}

\* the titles of the cache that "range itemIndex" finds without a recipe
Missing(itemIdx, accepted) == (DOMAIN itemIdx) \ (DOMAIN accepted)

InitSync ==
    /\ recipeSlice \in Corpora
    /\ idx = EmptyMap
    /\ file = [exists |-> FALSE, bytes |-> <<>>]
    /\ itemIndex = EmptyMap
    /\ hrecipes = EmptyMap
    /\ at = 1
    /\ spc = "idle"
    /\ calls = <<>>
    /\ loaded = EmptyMap
    /\ file0 = [exists |-> FALSE, bytes |-> <<>>]
    /\ change = [kind |-> "first", at |-> 0]
    /\ since = [kind |-> "first", at |-> 0]
    /\ ParseIdle
    /\ LoadIdle

Init == InitSync /\ faulty = FALSE

InitReject == InitSync /\ faulty = TRUE

\* between two runs: one line of one category of one document is edited
EditLine ==
    /\ spc = "idle"
    /\ change.kind = "none"
    /\ \E k \in 1..Len(recipeSlice) : \E q \in RecipePool :
          /\ OneLineChanged(recipeSlice[k], q)
          /\ recipeSlice' = [recipeSlice EXCEPT ![k] = q]
          /\ change' = [kind |-> "line", at |-> k]
    /\ UNCHANGED <<idx, file, itemIndex, hrecipes, at, spc, calls, loaded, file0, since,
                   faulty, parseVars, loadVars>>

\* between two runs: a document is removed from the corpus
RemoveDocument ==
    /\ spc = "idle"
    /\ change.kind # "first"
    /\ \E k \in 1..Len(recipeSlice) :
          recipeSlice' = SubSeq(recipeSlice, 1, k - 1)
                            \o SubSeq(recipeSlice, k + 1, Len(recipeSlice))
    /\ change' = [kind |-> "other", at |-> 0]
    /\ UNCHANGED <<idx, file, itemIndex, hrecipes, at, spc, calls, loaded, file0, since,
                   faulty, parseVars, loadVars>>

\* between two runs: a document is added to the corpus, anywhere in walk order
AddDocument ==
    /\ spc = "idle"
    /\ change.kind # "first"
    /\ Len(recipeSlice) < MaxRecipes
    /\ \E k \in 1..(Len(recipeSlice) + 1) : \E r \in RecipePool :
          recipeSlice' = SubSeq(recipeSlice, 1, k - 1) \o <<r>>
                            \o SubSeq(recipeSlice, k, Len(recipeSlice))
    /\ change' = [kind |-> "other", at |-> 0]
    /\ UNCHANGED <<idx, file, itemIndex, hrecipes, at, spc, calls, loaded, file0, since,
                   faulty, parseVars, loadVars>>

\* NewHandler up to its loop: the index is opened, item.idx is loaded
SyncStart ==
    /\ spc = "idle"
    /\ itemIndex' = LoadItemIndex(file)
    /\ loaded' = LoadItemIndex(file)
    /\ file0' = file
    /\ hrecipes' = EmptyMap
    /\ calls' = <<>>
    /\ at' = 1
    /\ spc' = "loop"
    /\ since' = change
    /\ change' = [kind |-> "none", at |-> 0]
    /\ UNCHANGED <<recipeSlice, idx, file, faulty, parseVars, loadVars>>

\* one iteration of "for _, recip := range recipeSlice"
SyncRecipe ==
    /\ spc = "loop"
    /\ at <= Len(recipeSlice)
    /\ at' = at + 1
    /\ LET recip     == recipeSlice[at]
           sha256sum == Digest(recip)
           exists    == recip.Title \in DOMAIN itemIndex
       IN  IF recip.Title = <<>> \/ IsDuplicate(recip.Title, hrecipes)
           THEN UNCHANGED <<idx, itemIndex, hrecipes, spc, calls>>
           ELSE /\ hrecipes' = MapPut(hrecipes, recip.Title, at)
                /\ IF ~exists \/ sha256sum # itemIndex[recip.Title]
                   THEN \E ok \in (IF faulty THEN BOOLEAN ELSE {TRUE}) :
                          /\ calls' = calls
                                \o (IF exists THEN <<DeleteCall(recip.Title)>> ELSE <<>>)
                                \o <<IndexCall(recip.Title, at, ok)>>
                          /\ itemIndex' = MapPut(itemIndex, recip.Title, sha256sum)
                          /\ idx' = IF ok THEN MapPut(idx, recip.Title, recip)
                                    ELSE IF exists THEN MapDelete(idx, recip.Title)
                                    ELSE idx
                          /\ spc' = IF IndexFailureReturns(ok) THEN "failed" ELSE "loop"
                   ELSE UNCHANGED <<idx, itemIndex, spc, calls>>
    /\ UNCHANGED <<recipeSlice, file, loaded, file0, change, since, faulty,
                   parseVars, loadVars>>

\* one iteration of "for recipeTitle := range itemIndex" that finds no recipe
Prune ==
    /\ spc = "loop"
    /\ at > Len(recipeSlice)
    /\ \E recipeTitle \in Missing(itemIndex, hrecipes) :
          /\ calls' = Append(calls, DeleteCall(recipeTitle))
          /\ idx' = MapDelete(idx, recipeTitle)
          /\ itemIndex' = MapDelete(itemIndex, recipeTitle)
    /\ UNCHANGED <<recipeSlice, file, hrecipes, at, spc, loaded, file0, change, since,
                   faulty, parseVars, loadVars>>

\* SaveItemIndex, and NewHandler returns the handler
Save ==
    /\ spc = "loop"
    /\ at > Len(recipeSlice)
    /\ Missing(itemIndex, hrecipes) = {}
    /\ \E keys \in Orders(DOMAIN itemIndex) :
          file' = [exists |-> TRUE, bytes |-> SaveItemIndex(itemIndex, keys)]
    /\ spc' = "done"
    /\ UNCHANGED <<recipeSlice, idx, itemIndex, hrecipes, at, calls, loaded, file0,
                   change, since, faulty, parseVars, loadVars>>

\* the process ends (handler.Close() in main, or os.Exit(1) after a failed
\* NewHandler): the index and item.idx stay, the handler is gone
Exit ==
    /\ spc \in {"done", "failed"}
    /\ spc' = "idle"
    /\ itemIndex' = EmptyMap
    /\ hrecipes' = EmptyMap
    /\ at' = 1
    /\ calls' = <<>>
    /\ loaded' = EmptyMap
    /\ file0' = file
    /\ since' = change
    /\ change' = IF spc = "failed" THEN [kind |-> "other", at |-> 0] ELSE change
    /\ UNCHANGED <<recipeSlice, idx, file, faulty, parseVars, loadVars>>

Next ==
    \/ EditLine
    \/ RemoveDocument
    \/ AddDocument
    \/ SyncStart
    \/ SyncRecipe
    \/ Prune
    \/ Save
    \/ Exit

Spec == Init /\ [][Next]_vars

SpecReject == InitReject /\ [][Next]_vars

(***************************************************************************)
(* Properties of the synchronisation (Spec, SpecReject)                    *)
(***************************************************************************)
\* the titles that some recipe of the corpus has
CorpusTitles == {recipeSlice[k].Title : k \in 1..Len(recipeSlice)} \ {<<>>}

\* the first place of the corpus with this title
FirstWith(t) ==
    CHOOSE k \in 1..Len(recipeSlice) :
        /\ recipeSlice[k].Title = t
        /\ \A j \in 1..(k - 1) : recipeSlice[j].Title # t

Called(c) == \E n \in 1..Len(calls) : calls[n] = c

\* a pass is running or has ended, and the handler's state is still there
InPass == spc \in {"loop", "done", "failed"}

\* C1: a pass that runs on the corpus of the pass before it, which ended with
\* item.idx saved, calls neither Index nor Delete.
C1_SecondRunIssuesNoCall ==
    (spc = "done" /\ since.kind = "none") => calls = <<>>

\* C2: when a pass has ended, every title that was in the cache it loaded and
\* that no recipe of the corpus has was passed to Delete, and is neither in the
\* cache nor in the index.
C2_RemovedTitlePruned ==
    spc = "done" =>
        \A t \in DOMAIN loaded :
            t \notin CorpusTitles =>
                /\ Called(DeleteCall(t))
                /\ t \notin DOMAIN itemIndex
                /\ t \notin DOMAIN idx

\* a pass ended after the only document of a cached title had been removed
C2_Witness ==
    /\ spc = "done"
    /\ since.kind = "other"
    /\ TitleB \in DOMAIN loaded
    /\ TitleB \notin CorpusTitles
    /\ Called(DeleteCall(TitleB))
    /\ CorpusTitles # {}

\* C3: when one line of one category of a cached recipe was edited since the
\* pass before (nothing else changed), the pass calls Delete and then Index for
\* its title, makes no other call, and holds the new digest in the cache.
C3_OneLineEditedOneReindex ==
    (/\ spc = "done"
     /\ since.kind = "line"
     /\ recipeSlice[since.at].Title # <<>>
     /\ FirstWith(recipeSlice[since.at].Title) = since.at
     /\ recipeSlice[since.at].Title \in DOMAIN loaded)
    => /\ calls = <<DeleteCall(recipeSlice[since.at].Title),
                    IndexCall(recipeSlice[since.at].Title, since.at, TRUE)>>
       /\ itemIndex[recipeSlice[since.at].Title] = Digest(recipeSlice[since.at])

\* C4: of the recipes with one title, only the first in walk order is accepted:
\* it is the one in handler.recipes, the only one passed to Index, and the one
\* whose digest the cache holds.
C4_FirstOfATitleWins ==
    InPass =>
        \A p \in 1..(at - 1) :
            LET t == recipeSlice[p].Title IN
            t # <<>> =>
                /\ t \in DOMAIN hrecipes
                /\ hrecipes[t] = FirstWith(t)
                /\ \A n \in 1..Len(calls) :
                      (calls[n].op = "Index" /\ calls[n].id = t)
                          => calls[n].doc = FirstWith(t)
                /\ t \in DOMAIN itemIndex
                /\ itemIndex[t] = Digest(recipeSlice[FirstWith(t)])

\* a pass ended on two recipes of one title and different content: the first
\* was indexed
C4_Witness ==
    /\ spc = "done"
    /\ \E p, q \in 1..Len(recipeSlice) :
          /\ p < q
          /\ recipeSlice[p].Title = recipeSlice[q].Title
          /\ recipeSlice[p].Title # <<>>
          /\ Digest(recipeSlice[p]) # Digest(recipeSlice[q])
          /\ Called(IndexCall(recipeSlice[p].Title, p, TRUE))

\* some Index call of the pass was rejected
SomeRejected == \E n \in 1..Len(calls) : ~calls[n].ok

\* recipe k is accepted and new or changed with respect to the loaded cache
NeedsIndex(k) ==
    /\ recipeSlice[k].Title # <<>>
    /\ FirstWith(recipeSlice[k].Title) = k
    /\ \/ recipeSlice[k].Title \notin DOMAIN loaded
       \/ loaded[recipeSlice[k].Title] # Digest(recipeSlice[k])

\* C9 as stated: after a rejected Index call the pass goes on: it ends with
\* every later new or changed recipe passed to Index, the removed titles pruned
\* and item.idx saved.
C9_Original_PassContinues ==
    SomeRejected =>
        /\ spc # "failed"
        /\ spc = "done" =>
              /\ \A k \in 1..Len(recipeSlice) :
                    NeedsIndex(k) => \E n \in 1..Len(calls) :
                                        calls[n].op = "Index" /\ calls[n].doc = k
              /\ \A t \in (DOMAIN loaded) \ CorpusTitles : Called(DeleteCall(t))
              /\ file.exists

\* C9 amended: a rejected Index call ends the pass: NewHandler returns the
\* error, no later recipe is passed to Index, no removed title is pruned, and
\* item.idx is not written.
C9_RejectedIndexEndsPass ==
    /\ \A n \in 1..Len(calls) :
          ~calls[n].ok => spc = "failed" /\ n = Len(calls)
    /\ spc = "failed" =>
          /\ SomeRejected
          /\ \A n \in 1..Len(calls) : calls[n].op = "Index" => calls[n].doc < at
          /\ calls[Len(calls)].doc = at - 1
          /\ \A t \in (DOMAIN loaded) \ CorpusTitles :
                ~Called(DeleteCall(t)) /\ t \in DOMAIN itemIndex
          /\ file = file0

\* a pass ended by a rejected Index call with a later recipe still to index and
\* a removed title still to prune
C9_Witness ==
    /\ spc = "failed"
    /\ SomeRejected
    /\ \E k \in at..Len(recipeSlice) : NeedsIndex(k)
    /\ (DOMAIN loaded) \ CorpusTitles # {}


(***************************************************************************)
(* SpecLost: the runs of Spec, with item.idx lost between two runs          *)
(*                                                                         *)
(* GetItemIndex fails when os.Open fails (the file is gone) and when the    *)
(* file ends right after the '\n' of a key (reader.Read returns 0 bytes and *)
(* io.EOF); NewHandler then goes on with an empty cache.  The index under   *)
(* the index path is not touched by the loss.                               *)
(***************************************************************************)
\* f cut to its first n bytes
Truncated(f, n) == [exists |-> TRUE, bytes |-> SubSeq(f.bytes, 1, n)]

\* what item.idx can be after the loss: gone, or cut so that GetItemIndex fails
LostFiles(f) ==
    {[exists |-> FALSE, bytes |-> <<>>]}
        \cup {Truncated(f, n) : n \in {m \in 1..Len(f.bytes) : ~GetItemIndex(Truncated(f, m)).ok}}

\* between two runs: item.idx is removed or truncated
LoseItemIndex ==
    /\ spc = "idle"
    /\ file.exists
    /\ \E f \in LostFiles(file) :
          /\ file' = f
          /\ file0' = f
    /\ UNCHANGED <<recipeSlice, idx, itemIndex, hrecipes, at, spc, calls, loaded, change,
                   since, faulty, parseVars, loadVars>>

NextLost == Next \/ LoseItemIndex

SpecLost == Init /\ [][NextLost]_vars

\* Handler.Search: the ids the search engine can return as hits
Hits == DOMAIN idx

\* "recipe := h.recipes[hit.ID]" finds a recipe
Resolves(id) == id \in DOMAIN hrecipes

\* C11: when a pass that found item.idx missing or unreadable has ended, the
\* index holds exactly the accepted titles, each with the accepted recipe, so
\* that every hit of a search resolves to a recipe of the handler.  (A pass that
\* starts with an empty index always ends so; the case of the claim is the index
\* that still holds entries of earlier passes.)
C11_IndexExactAfterLostCache ==
    (spc = "done" /\ ~GetItemIndex(file0).ok) =>
        /\ DOMAIN idx = DOMAIN hrecipes
        /\ \A t \in DOMAIN hrecipes : idx[t] = recipeSlice[hrecipes[t]]
        /\ \A id \in Hits : Resolves(id)


(***************************************************************************)
(* SpecEdit: the runs of NewHandler on a corpus of one document, whose      *)
(* categorized content is rewritten between two runs, or which is removed   *)
(***************************************************************************)
LineXX == <<120, 120>>                                         \* "xx"

LinePool == {LineX, LineXX, LineY}

\* r.Info after the line loop put the lines ing under "ingredients" and the
\* lines tip under "tips": a category without a line has no entry
InfoOf(ing, tip) ==
    LET withIng == IF ing = <<>> THEN EmptyMap ELSE MapPut(EmptyMap, Ingredients, ing)
    IN  IF tip = <<>> THEN withIng ELSE MapPut(withIng, Tips, tip)

\* the recipes titled "a" with at most MaxLines lines of content
EditPool ==
    {[Title |-> TitleA, Info |-> InfoOf(c[1], c[2])] :
        c \in {d \in SeqsUpTo(LinePool, MaxLines) \X SeqsUpTo(LinePool, MaxLines) :
                  Len(d[1]) + Len(d[2]) <= MaxLines}}

InitEdit ==
    /\ recipeSlice \in {<<r>> : r \in EditPool}
    /\ idx = EmptyMap
    /\ file = [exists |-> FALSE, bytes |-> <<>>]
    /\ itemIndex = EmptyMap
    /\ hrecipes = EmptyMap
    /\ at = 1
    /\ spc = "idle"
    /\ calls = <<>>
    /\ loaded = EmptyMap
    /\ file0 = [exists |-> FALSE, bytes |-> <<>>]
    /\ change = [kind |-> "first", at |-> 0]
    /\ since = [kind |-> "first", at |-> 0]
    /\ faulty = FALSE
    /\ ParseIdle
    /\ LoadIdle

\* between two runs: the content of a document is rewritten, its title kept
EditContent ==
    /\ spc = "idle"
    /\ change.kind = "none"
    /\ \E k \in 1..Len(recipeSlice) : \E q \in EditPool :
          /\ q.Title = recipeSlice[k].Title
          /\ q.Info # recipeSlice[k].Info
          /\ recipeSlice' = [recipeSlice EXCEPT ![k] = q]
          /\ change' = [kind |-> "content", at |-> k]
    /\ UNCHANGED <<idx, file, itemIndex, hrecipes, at, spc, calls, loaded, file0, since,
                   faulty, parseVars, loadVars>>

NextEdit ==
    \/ EditContent
    \/ RemoveDocument
    \/ SyncStart
    \/ SyncRecipe
    \/ Prune
    \/ Save
    \/ Exit

SpecEdit == InitEdit /\ [][NextEdit]_vars

\* C12: when the categorized content of a document was rewritten since the
\* pass before (the order of its lines, where its lines end, or the category
\* of a line; the title kept), the pass passes the recipe to Index and the
\* index holds the new content under its title.
C12_RewrittenContentReindexed ==
    (spc = "done" /\ since.kind = "content") =>
        /\ Called(IndexCall(recipeSlice[since.at].Title, since.at, TRUE))
        /\ idx[recipeSlice[since.at].Title] = recipeSlice[since.at]

=============================================================================
